---- MODULE Spec2Model ----
(***************************************************************************)
(* Model of the six-stroke engine simulation (six-stroke-engine.cpp and    *)
(* its header): the Gearbox, the performance recomputation with the        *)
(* upgrade effects, the update tick and the control commands.              *)
(*                                                                         *)
(* The program computes in double; the model computes in fixed point with  *)
(* truncating division.  Units:                                            *)
(*   rpm                       rev/min                                     *)
(*   dt, timer                 seconds                                     *)
(*   jerk, acceleration        the program's own units                     *)
(*   engine_temperature        1/10 degree C          (90.0 C = 900)       *)
(*   volumetric_efficiency     1/10000                (0.9 = 9000)         *)
(*   thermal_efficiency        1/1000000              (0.616785 = 616785)  *)
(*   power_output              W   (the program: kW)                       *)
(*   torque                    1/100 Nm                                    *)
(*   fuel_consumption          1/10000 of the program's unit               *)
(*   brake_specific_fuel_consumption, co2_emissions   1/10                 *)
(*   nox_emissions             1/1000000                                   *)
(*   piston_speed, vehicle_speed   mm/s                                    *)
(*   clock, start_time, last_frame_time, frame_times   ms                  *)
(*   current_fps               1/1000 frames per second                    *)
(***************************************************************************)
EXTENDS Integers, Sequences, FiniteSets, TLC

\* ------------------------------------------------------------------ bounds
\* update_dynamics is called with dt in 0..MaxDt seconds
MaxDt == 1
\* number of calls of the public interface explored after construction
MaxCalls == 2
\* number of iterations of the loop of run_simulation explored
MaxFrames == 1
\* number of update ticks explored where only ticks are made
MaxTicks == 3
\* reading of the clock, in ms, when the object is constructed
ClockStart == 1000

\* --------------------------------------------------------------- constants
idle_rpm == 800
max_rpm == 6000
optimal_temperature == 900
\* (PI / 4) * bore^2 * stroke * num_cylinders, in 1e-7 m^3
displacement == 14987
\* stroke in mm
stroke == 86
\* number of gear ratios of the Gearbox
NumGears == 5
\* gear ratios in 1/100
gear_ratios == <<342, 214, 145, 100, 83>>
\* final_drive_ratio in 1/100
final_drive_ratio == 373
\* 1 - 1 / 11^0.4 in 1/1000000
BaseThermalEfficiency == 616785
\* number of frame durations calculate_fps keeps
FrameWindow == 60
\* the double a division by 0.0 gives (IEC 559)
Infinity == 2147483647

\* the keys of the upgrades map, in std::map iteration order
UpgradeOrder ==
    << "advanced_materials", "ceramic_coating", "cylinder_deactivation",
       "direct_injection", "enhanced_ecu", "exhaust_gas_recirculation",
       "smart_cooling", "turbocharger", "variable_compression",
       "variable_valve_timing", "waste_heat_recovery" >>

KnownUpgrades == { UpgradeOrder[i] : i \in 1..Len(UpgradeOrder) }

\* the identifiers apply_upgrade is called with: the known ones and one that
\* is not a key of the map
UpgradeInputs == KnownUpgrades \cup { "nitrous_oxide" }

\* values of std::rand() % 201 - 100 in update_dynamics
JerkDraws == { -100, 0, 100 }

DtSet == 0..MaxDt

\* the time, in ms, between two readings of the clock
Durations == { 1000 * d : d \in DtSet }

\* values of get_user_input in run_simulation ("" is no key)
Keys == { "", "a", "d", "e", "q", "m" }

\* ----------------------------------------------------------------- helpers
Min2(a, b) == IF b < a THEN b ELSE a
Max2(a, b) == IF a < b THEN b ELSE a
Abs(x) == IF x < 0 THEN -x ELSE x

\* sequencing: { F(x) : x \in {v} } is the statement F applied to the object v
\* left by the statements before it, and Only takes the object out of the set
Only(S) == CHOOSE y \in S : TRUE

GearStr == << "1", "2", "3", "4", "5" >>

\* --------------------------------------------------------------- Gearbox
\* shift_up stopping one gear below the top
shift_up_early_stop(g) == IF g < NumGears - 1 THEN g + 1 ELSE g

shift_up(g) == IF g < NumGears THEN g + 1 ELSE g

shift_down(g) == IF g > 1 THEN g - 1 ELSE g

get_current_ratio(g) == gear_ratios[g]

\* ------------------------------------------------------- performance model
calculate_piston_speed(r) == (2 * stroke * r) \div 60

\* mean_effective_pressure (1e6 Pa) * displacement * rpm / 120, in W
calculate_power(r) == (displacement * r) \div 1200

\* power * 60 / (2 * PI * rpm), in 1/100 Nm
calculate_torque(p, r) == (p * 6000) \div ((6283 * r) \div 1000)

calculate_thermal_efficiency == BaseThermalEfficiency

\* the closure registered for one upgrade, applied to the engine fields
upgrade_effect(id, e) ==
    CASE id = "direct_injection" ->
           [e EXCEPT !.fuel_consumption = (@ * 90) \div 100,
                     !.thermal_efficiency = (@ * 105) \div 100]
      [] id = "turbocharger" ->
           [e EXCEPT !.power_output = (@ * 120) \div 100,
                     !.volumetric_efficiency = (@ * 115) \div 100]
      [] id = "variable_valve_timing" ->
           [e EXCEPT !.volumetric_efficiency = (@ * 110) \div 100,
                     !.fuel_consumption = (@ * 95) \div 100]
      [] id = "exhaust_gas_recirculation" ->
           [e EXCEPT !.nox_emissions = (@ * 70) \div 100]
      [] id = "waste_heat_recovery" ->
           [e EXCEPT !.thermal_efficiency = (@ * 105) \div 100]
      [] id = "smart_cooling" ->
           [e EXCEPT !.thermal_efficiency = (@ * 102) \div 100]
      [] id = "advanced_materials" ->
           [e EXCEPT !.power_output = (@ * 105) \div 100]
      [] id = "enhanced_ecu" ->
           [e EXCEPT !.fuel_consumption = (@ * 95) \div 100,
                     !.power_output = (@ * 105) \div 100]
      [] id = "cylinder_deactivation" ->
           [e EXCEPT !.fuel_consumption = (@ * 92) \div 100]
      [] id = "variable_compression" ->
           [e EXCEPT !.thermal_efficiency = (@ * 108) \div 100,
                     !.fuel_consumption = (@ * 93) \div 100]
      [] id = "ceramic_coating" ->
           [e EXCEPT !.thermal_efficiency = (@ * 103) \div 100,
                     !.engine_temperature = @ - 50]
      [] OTHER -> e

\* the loop over the upgrades map: every active upgrade's effect, in map order
RECURSIVE apply_active_effects(_, _)
apply_active_effects(e, i) ==
    IF i > Len(UpgradeOrder) THEN e
    ELSE LET id == UpgradeOrder[i]
             effect(x) == apply_active_effects(
                 IF x.upgrades[id] THEN upgrade_effect(id, x) ELSE x, i + 1)
         IN Only({ effect(x) : x \in {e} })

\* update_performance without its final clamp
volumetric_efficiency_unclamped(v) == v

\* the final clamp of update_performance
clamp_volumetric_efficiency(v) == Min2(Max2(v, 7000), 10000)

update_performance(e) ==
    LET base(x) ==
            [x EXCEPT !.piston_speed = calculate_piston_speed(x.rpm),
                      !.power_output = calculate_power(x.rpm),
                      !.torque = calculate_torque(calculate_power(x.rpm), x.rpm),
                      !.thermal_efficiency = calculate_thermal_efficiency]
        effects(x) == apply_active_effects(x, 1)
        fuel(x) ==
            [x EXCEPT !.fuel_consumption =
                (((x.power_output * 3600) \div 43) * 100)
                    \div (x.thermal_efficiency \div 100)]
        bsfc(x) ==
            [x EXCEPT !.brake_specific_fuel_consumption =
                (x.fuel_consumption * 3600) \div x.power_output]
        emissions(x) ==
            [x EXCEPT !.co2_emissions =
                          (x.brake_specific_fuel_consumption * 32) \div 10,
                      !.nox_emissions =
                          (x.power_output * (100 + x.engine_temperature)) \div 100]
        water(x) ==
            IF x.water_injection_active
            THEN [x EXCEPT !.thermal_efficiency = (@ * 110) \div 100,
                           !.nox_emissions = (@ * 8) \div 10]
            ELSE x
        penalty(x) ==
            LET temp_difference == Abs(x.engine_temperature - optimal_temperature)
            IN IF temp_difference > 100
               THEN [x EXCEPT !.thermal_efficiency =
                                  @ - (@ * temp_difference) \div 10000]
               ELSE x
        clamp(x) ==
            [x EXCEPT !.volumetric_efficiency = clamp_volumetric_efficiency(@)]
        s1 == { base(x) : x \in {e} }
        s2 == { effects(x) : x \in s1 }
        s3 == { fuel(x) : x \in s2 }
        s4 == { bsfc(x) : x \in s3 }
        s5 == { emissions(x) : x \in s4 }
        s6 == { water(x) : x \in s5 }
        s7 == { penalty(x) : x \in s6 }
    IN Only({ clamp(x) : x \in s7 })

\* wheel_rpm in 1/10 rev/min, speed in mm/s (2 * PI * wheel_radius / 60)
update_vehicle_speed(e) ==
    LET speed(x) ==
            LET wheel_rpm ==
                    (x.rpm * 100000)
                        \div (get_current_ratio(x.current_gear) * final_drive_ratio)
            IN [x EXCEPT !.vehicle_speed = (wheel_rpm * 1995) \div 600]
    IN Only({ speed(x) : x \in {e} })

\* ------------------------------------------------------------ construction
\* the member initialisers and the upgrades map of the constructor
InitialFields ==
    [ rpm |-> 1000, acceleration |-> 0, jerk |-> 0,
      engine_temperature |-> 900, water_injection_active |-> FALSE,
      current_gear |-> 1, transmission_mode |-> "Automatic",
      gear_shift_message |-> "", gear_shift_message_timer |-> 0,
      upgrades |-> [ id \in KnownUpgrades |-> FALSE ],
      power_output |-> 0, torque |-> 0, thermal_efficiency |-> 0,
      volumetric_efficiency |-> 9000, fuel_consumption |-> 0,
      brake_specific_fuel_consumption |-> 0, co2_emissions |-> 0,
      nox_emissions |-> 500000, piston_speed |-> calculate_piston_speed(1000),
      vehicle_speed |-> 0 ]

Constructed == update_vehicle_speed(update_performance(InitialFields))

\* --------------------------------------------------------------- operations
toggle_water_injection(e, activate) ==
    update_performance([e EXCEPT !.water_injection_active = activate])

\* apply_upgrade without the test for a known identifier: operator[] inserts
apply_upgrade_insert(e, id) ==
    update_performance(
        [e EXCEPT !.upgrades =
            [x \in (DOMAIN @) \cup {id} |-> IF x = id THEN TRUE ELSE @[x]]])

\* apply_upgrade flipping the flag instead of setting it
apply_upgrade_flip(e, id) ==
    LET apply(x) ==
            IF id \in DOMAIN x.upgrades
            THEN update_performance([x EXCEPT !.upgrades[id] = ~@])
            ELSE x
    IN Only({ apply(x) : x \in {e} })

apply_upgrade(e, id) ==
    LET apply(x) ==
            IF id \in DOMAIN x.upgrades
            THEN update_performance([x EXCEPT !.upgrades[id] = TRUE])
            ELSE x
    IN Only({ apply(x) : x \in {e} })

\* toggle_transmission_mode always selecting Manual
toggle_transmission_mode_to_manual(e) ==
    [e EXCEPT !.transmission_mode = "Manual"]

toggle_transmission_mode(e) ==
    [e EXCEPT !.transmission_mode =
                  IF @ = "Automatic" THEN "Manual" ELSE "Automatic"]

\* the clamp of rpm without its upper limit
clamp_rpm_no_upper(r) == Max2(idle_rpm, r)

clamp_rpm(r) == Max2(idle_rpm, Min2(max_rpm, r))

clamp_temperature(t) == Max2(850, Min2(1100, t))

\* the limit of acceleration left out
acceleration_unclamped(a) == a

clamp_acceleration(a) == Max2(-50, Min2(50, a))

\* the automatic shift with the upshift threshold included (rpm >= 4000)
auto_shift_inclusive(e) ==
    LET shift(x) ==
            IF x.transmission_mode = "Automatic"
            THEN IF x.rpm >= 4000 /\ x.current_gear < 5
                 THEN [x EXCEPT !.current_gear = shift_up(@), !.rpm = @ - 1500]
                 ELSE IF x.rpm < 2000 /\ x.current_gear > 1
                      THEN [x EXCEPT !.current_gear = shift_down(@),
                                     !.rpm = @ + 1500]
                      ELSE x
            ELSE x
    IN Only({ shift(x) : x \in {e} })

\* the automatic shift with the downshift made below 3000 rev/min
auto_shift_late_downshift(e) ==
    LET shift(x) ==
            IF x.transmission_mode = "Automatic"
            THEN IF x.rpm > 4000 /\ x.current_gear < 5
                 THEN [x EXCEPT !.current_gear = shift_up(@), !.rpm = @ - 1500]
                 ELSE IF x.rpm < 3000 /\ x.current_gear > 1
                      THEN [x EXCEPT !.current_gear = shift_down(@),
                                     !.rpm = @ + 1500]
                      ELSE x
            ELSE x
    IN Only({ shift(x) : x \in {e} })

\* the automatic shift of update_dynamics, before the second clamp of rpm
auto_shift(e) ==
    LET shift(x) ==
            IF x.transmission_mode = "Automatic"
            THEN IF x.rpm > 4000 /\ x.current_gear < 5
                 THEN [x EXCEPT !.current_gear = shift_up(@), !.rpm = @ - 1500]
                 ELSE IF x.rpm < 2000 /\ x.current_gear > 1
                      THEN [x EXCEPT !.current_gear = shift_down(@),
                                     !.rpm = @ + 1500]
                      ELSE x
            ELSE x
    IN Only({ shift(x) : x \in {e} })

\* the end of update_dynamics with the timer decreased and the message kept
update_shift_message_kept(e, previous_gear, dt) ==
    LET message(x) ==
            IF x.current_gear # previous_gear
            THEN [x EXCEPT !.gear_shift_message =
                               "Shifted to gear " \o GearStr[x.current_gear],
                           !.gear_shift_message_timer = 3]
            ELSE IF x.gear_shift_message_timer > 0
                 THEN [x EXCEPT !.gear_shift_message_timer = @ - dt]
                 ELSE x
    IN Only({ message(x) : x \in {e} })

\* the gear shift message and timer at the end of update_dynamics
update_shift_message(e, previous_gear, dt) ==
    LET message(x) ==
            IF x.current_gear # previous_gear
            THEN [x EXCEPT !.gear_shift_message =
                               "Shifted to gear " \o GearStr[x.current_gear],
                           !.gear_shift_message_timer = 3]
            ELSE IF x.gear_shift_message_timer > 0
                 THEN [x EXCEPT !.gear_shift_message_timer = @ - dt,
                                !.gear_shift_message =
                                    IF x.gear_shift_message_timer - dt <= 0
                                    THEN "" ELSE @]
                 ELSE x
    IN Only({ message(x) : x \in {e} })

\* draw is std::rand() % 201 - 100, toggle is std::rand() % 1000 < 5
update_dynamics(e, dt, draw, toggle) ==
    LET integrate(x) ==
            LET j == Max2(-500, Min2(500, x.jerk + draw * dt))
                a == clamp_acceleration(x.acceleration + j * dt)
                temp_change == (IF a > 0 THEN 5 ELSE -2) * dt
            IN [x EXCEPT !.jerk = j,
                         !.acceleration = a,
                         !.rpm = clamp_rpm(@ + a * dt * 10),
                         !.engine_temperature = clamp_temperature(@ + temp_change)]
        water(x) ==
            IF toggle
            THEN toggle_water_injection(x, ~x.water_injection_active)
            ELSE x
        \* from previous_gear on: x is the object when previous_gear is read
        shift(x) ==
            update_shift_message(
                update_vehicle_speed(update_performance(
                    Only({ [y EXCEPT !.rpm = clamp_rpm(@)] : y \in {auto_shift(x)} }))),
                x.current_gear, dt)
        s1 == { integrate(x) : x \in {e} }
        s2 == { water(x) : x \in s1 }
    IN Only({ shift(x) : x \in s2 })

accelerate(e) ==
    LET pedal(x) ==
            LET temp_increase == (5 * (1900 - x.engine_temperature)) \div 1000
                t == x.engine_temperature + Max2(0, temp_increase)
            IN [x EXCEPT !.rpm = IF @ + 100 > max_rpm THEN max_rpm ELSE @ + 100,
                         !.engine_temperature = IF t > 1100 THEN 1100 ELSE t]
        shift(x) ==
            IF x.rpm > 4000 /\ x.current_gear < 5
            THEN [x EXCEPT !.current_gear = shift_up(@), !.rpm = @ - 1500]
            ELSE x
        s1 == { update_vehicle_speed(update_performance(pedal(x))) : x \in {e} }
    IN Only({ shift(x) : x \in s1 })

decelerate(e) ==
    LET pedal(x) ==
            LET temp_decrease == (2 * (x.engine_temperature - 900)) \div 1000
                t == x.engine_temperature - Max2(0, temp_decrease)
            IN [x EXCEPT !.rpm = IF @ - 100 < idle_rpm THEN idle_rpm ELSE @ - 100,
                         !.engine_temperature = IF t < 850 THEN 850 ELSE t]
        shift(x) ==
            IF x.rpm < 2000 /\ x.current_gear > 1
            THEN [x EXCEPT !.current_gear = shift_down(@), !.rpm = @ + 1500]
            ELSE x
        s1 == { update_vehicle_speed(update_performance(pedal(x))) : x \in {e} }
    IN Only({ shift(x) : x \in s1 })

\* manual_upshift without the lower clamp of rpm
manual_upshift_no_clamp(e) ==
    LET command(x) ==
            IF x.transmission_mode = "Manual"
            THEN IF shift_up(x.current_gear) # x.current_gear
                 THEN [x EXCEPT !.current_gear = shift_up(@),
                                !.rpm = @ - 1500,
                                !.gear_shift_message =
                                    "Manually shifted up to gear "
                                        \o GearStr[shift_up(x.current_gear)],
                                !.gear_shift_message_timer = 3]
                 ELSE [x EXCEPT !.gear_shift_message = "Already in highest gear",
                                !.gear_shift_message_timer = 3]
            ELSE x
    IN Only({ command(x) : x \in {e} })

manual_upshift(e) ==
    LET command(x) ==
            IF x.transmission_mode = "Manual"
            THEN \* previous_gear is x.current_gear
                 IF shift_up(x.current_gear) # x.current_gear
                 THEN [x EXCEPT !.current_gear = shift_up(@),
                                !.rpm = Max2(@ - 1500, idle_rpm),
                                !.gear_shift_message =
                                    "Manually shifted up to gear "
                                        \o GearStr[shift_up(x.current_gear)],
                                !.gear_shift_message_timer = 3]
                 ELSE [x EXCEPT !.gear_shift_message = "Already in highest gear",
                                !.gear_shift_message_timer = 3]
            ELSE x
    IN Only({ command(x) : x \in {e} })

\* manual_downshift without the test of the transmission mode
manual_downshift_any_mode(e) ==
    LET command(x) ==
            IF shift_down(x.current_gear) # x.current_gear
            THEN [x EXCEPT !.current_gear = shift_down(@),
                           !.rpm = Min2(@ + 1500, max_rpm),
                           !.gear_shift_message =
                               "Manually shifted down to gear "
                                   \o GearStr[shift_down(x.current_gear)],
                           !.gear_shift_message_timer = 3]
            ELSE [x EXCEPT !.gear_shift_message = "Already in lowest gear",
                           !.gear_shift_message_timer = 3]
    IN Only({ command(x) : x \in {e} })

manual_downshift(e) ==
    LET command(x) ==
            IF x.transmission_mode = "Manual"
            THEN \* previous_gear is x.current_gear
                 IF shift_down(x.current_gear) # x.current_gear
                 THEN [x EXCEPT !.current_gear = shift_down(@),
                                !.rpm = Min2(@ + 1500, max_rpm),
                                !.gear_shift_message =
                                    "Manually shifted down to gear "
                                        \o GearStr[shift_down(x.current_gear)],
                                !.gear_shift_message_timer = 3]
                 ELSE [x EXCEPT !.gear_shift_message = "Already in lowest gear",
                                !.gear_shift_message_timer = 3]
            ELSE x
    IN Only({ command(x) : x \in {e} })

\* ---------------------------------------------------------- frames per second
RECURSIVE Sum(_)
Sum(q) == IF q = << >> THEN 0 ELSE Head(q) + Sum(Tail(q))

\* the pop of calculate_fps made from a queue that is exactly full
evict_when_full(q) == IF Len(q) >= FrameWindow THEN Tail(q) ELSE q

\* the pop of calculate_fps after the push
evict(q) == IF Len(q) > FrameWindow THEN Tail(q) ELSE q

\* size / (total_time / 1000.0), in 1/1000 frames per second
frames_per_second(size, total_time) ==
    IF total_time = 0 THEN Infinity ELSE (size * 1000000) \div total_time

\* t holds frame_times and last_frame_time, current_time is the reading of
\* the clock; result is the value returned
calculate_fps(t, current_time) ==
    LET frame_time == current_time - t.last_frame_time
        kept == evict(Append(t.frame_times, frame_time))
    IN [ frame_times |-> kept,
         last_frame_time |-> current_time,
         frame_time |-> frame_time,
         result |-> frames_per_second(Len(kept), Sum(kept)) ]

\* ------------------------------------------------------------------- state
VARIABLES
    rpm, acceleration, jerk, engine_temperature, water_injection_active,
    current_gear, transmission_mode, gear_shift_message,
    gear_shift_message_timer, upgrades,
    power_output, torque, thermal_efficiency, volumetric_efficiency,
    fuel_consumption, brake_specific_fuel_consumption, co2_emissions,
    nox_emissions, piston_speed, vehicle_speed,
    frame_times, last_frame_time, current_fps,
    start_time, \* the local start_time of run_simulation
    clock,      \* the last reading of high_resolution_clock, in ms
    frame_log,  \* every frame_time calculate_fps measured, in order
    call,       \* the last call of the public interface and its arguments
    calls       \* number of calls made since construction

fields ==
    << rpm, acceleration, jerk, engine_temperature, water_injection_active,
       current_gear, transmission_mode, gear_shift_message,
       gear_shift_message_timer, upgrades,
       power_output, torque, thermal_efficiency, volumetric_efficiency,
       fuel_consumption, brake_specific_fuel_consumption, co2_emissions,
       nox_emissions, piston_speed, vehicle_speed >>

timing ==
    << frame_times, last_frame_time, current_fps, start_time, clock, frame_log >>

vars == << fields, timing, call, calls >>

\* the SixStrokeEngine object as a record of its fields
Engine ==
    [ rpm |-> rpm, acceleration |-> acceleration, jerk |-> jerk,
      engine_temperature |-> engine_temperature,
      water_injection_active |-> water_injection_active,
      current_gear |-> current_gear, transmission_mode |-> transmission_mode,
      gear_shift_message |-> gear_shift_message,
      gear_shift_message_timer |-> gear_shift_message_timer,
      upgrades |-> upgrades,
      power_output |-> power_output, torque |-> torque,
      thermal_efficiency |-> thermal_efficiency,
      volumetric_efficiency |-> volumetric_efficiency,
      fuel_consumption |-> fuel_consumption,
      brake_specific_fuel_consumption |-> brake_specific_fuel_consumption,
      co2_emissions |-> co2_emissions, nox_emissions |-> nox_emissions,
      piston_speed |-> piston_speed, vehicle_speed |-> vehicle_speed ]

\* the object after a call: every field takes the value the call left
Becomes(e) ==
    /\ rpm' = e.rpm
    /\ acceleration' = e.acceleration
    /\ jerk' = e.jerk
    /\ engine_temperature' = e.engine_temperature
    /\ water_injection_active' = e.water_injection_active
    /\ current_gear' = e.current_gear
    /\ transmission_mode' = e.transmission_mode
    /\ gear_shift_message' = e.gear_shift_message
    /\ gear_shift_message_timer' = e.gear_shift_message_timer
    /\ upgrades' = e.upgrades
    /\ power_output' = e.power_output
    /\ torque' = e.torque
    /\ thermal_efficiency' = e.thermal_efficiency
    /\ volumetric_efficiency' = e.volumetric_efficiency
    /\ fuel_consumption' = e.fuel_consumption
    /\ brake_specific_fuel_consumption' = e.brake_specific_fuel_consumption
    /\ co2_emissions' = e.co2_emissions
    /\ nox_emissions' = e.nox_emissions
    /\ piston_speed' = e.piston_speed
    /\ vehicle_speed' = e.vehicle_speed

\* ----------------------------------------------------------- call sequences
Call(op, arg) == [op |-> op, arg |-> arg]

\* the effect of one call of the public interface on the object
Apply(e, c) ==
    CASE c.op = "update_dynamics" ->
           update_dynamics(e, c.arg[1], c.arg[2], c.arg[3])
      [] c.op = "apply_upgrade" -> apply_upgrade(e, c.arg[1])
      [] c.op = "toggle_water_injection" -> toggle_water_injection(e, c.arg[1])
      [] c.op = "toggle_transmission_mode" -> toggle_transmission_mode(e)
      [] c.op = "accelerate" -> accelerate(e)
      [] c.op = "decelerate" -> decelerate(e)
      [] c.op = "manual_upshift" -> manual_upshift(e)
      [] c.op = "manual_downshift" -> manual_downshift(e)

RECURSIVE Run(_, _)
Run(e, s) ==
    IF s = << >> THEN e
    ELSE LET rest(x) == Run(x, Tail(s))
         IN Only({ rest(x) : x \in {Apply(e, Head(s))} })

ToggleMode == Call("toggle_transmission_mode", << >>)
Upshift == Call("manual_upshift", << >>)
RevUp == Call("update_dynamics", << 2, 100, FALSE >>)
RevDown == Call("update_dynamics", << 2, -100, FALSE >>)
Startup(id) == Call("apply_upgrade", << id >>)

\* Call sequences made on a fresh object before the explored calls.  Every
\* prefix of a drive is a starting state, so each starting state is the
\* constructor's state followed by calls of the public interface.
Drives ==
    { \* Manual mode, up to the top gear, then revving up in gear 5
      << ToggleMode, Upshift, Upshift, Upshift, Upshift,
         RevUp, RevUp, RevUp, RevUp >>,
      \* Automatic mode, revving up through the automatic upshifts
      << RevUp, RevUp, RevUp, RevUp, RevUp, RevUp >>,
      \* Manual mode, revving up in gear 1 to max_rpm and down again
      << ToggleMode, RevUp, RevUp, RevUp, RevUp, RevUp,
         RevDown, RevDown, RevDown, RevDown >>,
      \* Manual mode to gear 3 at idle, then back to Automatic
      << ToggleMode, Upshift, Upshift, ToggleMode >>,
      \* main's start-up upgrades, in main's order
      << Startup("turbocharger"), Startup("variable_valve_timing"),
         Startup("ceramic_coating") >> }

\* the timing members of a constructed object: an empty queue, a
\* default-constructed time_point (the clock's epoch) and current_fps(0)
Untimed ==
    /\ frame_times = << >>
    /\ last_frame_time = 0
    /\ current_fps = 0
    /\ start_time = 0
    /\ clock = ClockStart
    /\ frame_log = << >>

StartCalls == UNION { { SubSeq(d, 1, n) : n \in 0..Len(d) } : d \in Drives }

Init ==
    \E s \in StartCalls :
        LET e == Run(Constructed, s)
        IN /\ rpm = e.rpm
           /\ acceleration = e.acceleration
           /\ jerk = e.jerk
           /\ engine_temperature = e.engine_temperature
           /\ water_injection_active = e.water_injection_active
           /\ current_gear = e.current_gear
           /\ transmission_mode = e.transmission_mode
           /\ gear_shift_message = e.gear_shift_message
           /\ gear_shift_message_timer = e.gear_shift_message_timer
           /\ upgrades = e.upgrades
           /\ power_output = e.power_output
           /\ torque = e.torque
           /\ thermal_efficiency = e.thermal_efficiency
           /\ volumetric_efficiency = e.volumetric_efficiency
           /\ fuel_consumption = e.fuel_consumption
           /\ brake_specific_fuel_consumption = e.brake_specific_fuel_consumption
           /\ co2_emissions = e.co2_emissions
           /\ nox_emissions = e.nox_emissions
           /\ piston_speed = e.piston_speed
           /\ vehicle_speed = e.vehicle_speed
           /\ Untimed
           /\ call = IF s = << >> THEN Call("SixStrokeEngine", << >>)
                      ELSE s[Len(s)]
           /\ calls = 0

Called(op, arg) ==
    /\ calls < MaxCalls
    /\ calls' = calls + 1
    /\ call' = Call(op, arg)

UpdateDynamics ==
    \E dt \in DtSet, draw \in JerkDraws, toggle \in BOOLEAN :
        /\ Called("update_dynamics", << dt, draw, toggle >>)
        /\ Becomes(update_dynamics(Engine, dt, draw, toggle))
        /\ UNCHANGED timing

ApplyUpgrade ==
    \E id \in UpgradeInputs :
        /\ Called("apply_upgrade", << id >>)
        /\ Becomes(apply_upgrade(Engine, id))
        /\ UNCHANGED timing

ToggleWaterInjection ==
    \E activate \in BOOLEAN :
        /\ Called("toggle_water_injection", << activate >>)
        /\ Becomes(toggle_water_injection(Engine, activate))
        /\ UNCHANGED timing

ToggleTransmissionMode ==
    /\ Called("toggle_transmission_mode", << >>)
    /\ Becomes(toggle_transmission_mode(Engine))
    /\ UNCHANGED timing

Accelerate ==
    /\ Called("accelerate", << >>)
    /\ Becomes(accelerate(Engine))
    /\ UNCHANGED timing

Decelerate ==
    /\ Called("decelerate", << >>)
    /\ Becomes(decelerate(Engine))
    /\ UNCHANGED timing

ManualUpshift ==
    /\ Called("manual_upshift", << >>)
    /\ Becomes(manual_upshift(Engine))
    /\ UNCHANGED timing

ManualDownshift ==
    /\ Called("manual_downshift", << >>)
    /\ Becomes(manual_downshift(Engine))
    /\ UNCHANGED timing

Next ==
    \/ UpdateDynamics
    \/ ApplyUpgrade
    \/ ToggleWaterInjection
    \/ ToggleTransmissionMode
    \/ Accelerate
    \/ Decelerate
    \/ ManualUpshift
    \/ ManualDownshift

Spec == Init /\ [][Next]_vars

\* ----------------------------------------------------------- run_simulation
\* the identifiers main applies before run_simulation, in main's order
MainUpgrades ==
    { << >>,
      << "turbocharger", "variable_valve_timing", "ceramic_coating" >> }

\* the switch on the key read in an iteration of the loop
handle_input(e, input) ==
    CASE input = "a" -> [e EXCEPT !.acceleration = @ + 10]
      [] input = "d" -> [e EXCEPT !.acceleration = @ - 10]
      [] input = "e" -> manual_upshift(e)
      [] input = "q" -> manual_downshift(e)
      [] input = "m" -> toggle_transmission_mode(e)
      [] OTHER -> e

\* run_simulation up to its loop, on the object e: start_time and
\* last_frame_time are set to the reading of the clock
run_simulation(e) ==
    [ e |-> e, frame_times |-> << >>, last_frame_time |-> ClockStart,
      current_fps |-> 0, start_time |-> ClockStart, clock |-> ClockStart,
      frame_log |-> << >>, elapsed |-> 0 ]

\* one iteration of the loop, on the object and the clock w: before is the
\* time that passed since the last reading of the clock when frame_start is
\* read, during the time that passed since then when calculate_fps reads it
run_simulation_frame(w, before, during, input, draw, toggle) ==
    LET frame(x) ==
            LET frame_start == x.clock + before
                elapsed == (frame_start - x.start_time) \div 1000
                fps == calculate_fps(x, frame_start + during)
            IN [ e |-> update_dynamics(handle_input(x.e, input),
                                       elapsed, draw, toggle),
                 frame_times |-> fps.frame_times,
                 last_frame_time |-> fps.last_frame_time,
                 current_fps |-> fps.result,
                 start_time |-> frame_start,
                 clock |-> frame_start + during,
                 frame_log |-> Append(x.frame_log, fps.frame_time),
                 elapsed |-> elapsed ]
    IN Only({ frame(x) : x \in {w} })

\* n iterations in which a second passed, the key 'a' was read and the
\* random draw was 100
RECURSIVE FullThrottle(_, _)
FullThrottle(w, n) ==
    IF n = 0 THEN w
    ELSE FullThrottle(run_simulation_frame(w, 1000, 0, "a", 100, FALSE), n - 1)

\* the object and the clock of the state
World ==
    [ e |-> Engine, frame_times |-> frame_times,
      last_frame_time |-> last_frame_time, current_fps |-> current_fps,
      start_time |-> start_time, clock |-> clock, frame_log |-> frame_log ]

\* main up to the loop of run_simulation (the object is constructed and
\* some upgrades are applied), followed by six iterations at full throttle
\* of a simulation without upgrades
LoopInit ==
    \E ids \in MainUpgrades, n \in {0, 6} :
        \E w \in { FullThrottle(run_simulation(Run(Constructed,
                       [ i \in 1..Len(ids) |-> Startup(ids[i]) ])), n) } :
           /\ ids # << >> => n = 0
           /\ rpm = w.e.rpm
           /\ acceleration = w.e.acceleration
           /\ jerk = w.e.jerk
           /\ engine_temperature = w.e.engine_temperature
           /\ water_injection_active = w.e.water_injection_active
           /\ current_gear = w.e.current_gear
           /\ transmission_mode = w.e.transmission_mode
           /\ gear_shift_message = w.e.gear_shift_message
           /\ gear_shift_message_timer = w.e.gear_shift_message_timer
           /\ upgrades = w.e.upgrades
           /\ power_output = w.e.power_output
           /\ torque = w.e.torque
           /\ thermal_efficiency = w.e.thermal_efficiency
           /\ volumetric_efficiency = w.e.volumetric_efficiency
           /\ fuel_consumption = w.e.fuel_consumption
           /\ brake_specific_fuel_consumption =
                  w.e.brake_specific_fuel_consumption
           /\ co2_emissions = w.e.co2_emissions
           /\ nox_emissions = w.e.nox_emissions
           /\ piston_speed = w.e.piston_speed
           /\ vehicle_speed = w.e.vehicle_speed
           /\ frame_times = w.frame_times
           /\ last_frame_time = w.last_frame_time
           /\ current_fps = w.current_fps
           /\ start_time = w.start_time
           /\ clock = w.clock
           /\ frame_log = w.frame_log
           /\ call = IF n = 0 THEN Call("run_simulation", << >>)
                      ELSE Call("run_simulation", << "a", w.elapsed, 100, FALSE >>)
           /\ calls = 0

Frame ==
    /\ calls < MaxFrames
    /\ \E before \in Durations, during \in Durations, input \in Keys,
          draw \in JerkDraws, toggle \in BOOLEAN :
         \E w \in { run_simulation_frame(World, before, during,
                                         input, draw, toggle) } :
            /\ calls' = calls + 1
            /\ call' = Call("run_simulation",
                            << input, w.elapsed, draw, toggle >>)
            /\ Becomes(w.e)
            /\ frame_times' = w.frame_times
            /\ last_frame_time' = w.last_frame_time
            /\ current_fps' = w.current_fps
            /\ start_time' = w.start_time
            /\ clock' = w.clock
            /\ frame_log' = w.frame_log

LoopSpec == LoopInit /\ [][Frame]_vars

\* ------------------------------------------------------------ calculate_fps
\* current_fps = calculate_fps(), made when passed ms have gone by since the
\* last reading of the clock
measure_fps(w, passed) ==
    LET measure(x) ==
            LET fps == calculate_fps(x, x.clock + passed)
            IN [x EXCEPT !.frame_times = fps.frame_times,
                         !.last_frame_time = fps.last_frame_time,
                         !.current_fps = fps.result,
                         !.clock = x.clock + passed,
                         !.frame_log = Append(@, fps.frame_time)]
    IN Only({ measure(x) : x \in {w} })

\* a constructed object on which calculate_fps is called first (line 561 was
\* not reached), or run_simulation up to its loop
FpsInit ==
    \E started \in BOOLEAN :
        \E w \in { IF started THEN run_simulation(Constructed)
                   ELSE [run_simulation(Constructed)
                             EXCEPT !.last_frame_time = 0, !.start_time = 0] } :
           /\ rpm = w.e.rpm
           /\ acceleration = w.e.acceleration
           /\ jerk = w.e.jerk
           /\ engine_temperature = w.e.engine_temperature
           /\ water_injection_active = w.e.water_injection_active
           /\ current_gear = w.e.current_gear
           /\ transmission_mode = w.e.transmission_mode
           /\ gear_shift_message = w.e.gear_shift_message
           /\ gear_shift_message_timer = w.e.gear_shift_message_timer
           /\ upgrades = w.e.upgrades
           /\ power_output = w.e.power_output
           /\ torque = w.e.torque
           /\ thermal_efficiency = w.e.thermal_efficiency
           /\ volumetric_efficiency = w.e.volumetric_efficiency
           /\ fuel_consumption = w.e.fuel_consumption
           /\ brake_specific_fuel_consumption =
                  w.e.brake_specific_fuel_consumption
           /\ co2_emissions = w.e.co2_emissions
           /\ nox_emissions = w.e.nox_emissions
           /\ piston_speed = w.e.piston_speed
           /\ vehicle_speed = w.e.vehicle_speed
           /\ frame_times = w.frame_times
           /\ last_frame_time = w.last_frame_time
           /\ current_fps = w.current_fps
           /\ start_time = w.start_time
           /\ clock = w.clock
           /\ frame_log = w.frame_log
           /\ call = IF started THEN Call("run_simulation", << >>)
                      ELSE Call("SixStrokeEngine", << >>)
           /\ calls = 0

\* the time the frame measured by the next call took: any of Durations for
\* the first MaxCalls calls, then 16 and 17 ms in turn
FrameDurations ==
    IF calls < MaxCalls THEN Durations ELSE { 16 + (calls % 2) }

\* FrameWindow + 2 calls are made, so that the queue fills and evicts
CalculateFps ==
    /\ calls < FrameWindow + 2
    /\ \E passed \in FrameDurations :
         \E w \in { measure_fps(World, passed) } :
            /\ calls' = calls + 1
            /\ call' = Call("calculate_fps", << passed >>)
            /\ frame_times' = w.frame_times
            /\ last_frame_time' = w.last_frame_time
            /\ current_fps' = w.current_fps
            /\ clock' = w.clock
            /\ frame_log' = w.frame_log
            /\ UNCHANGED << fields, start_time >>

FpsSpec == FpsInit /\ [][CalculateFps]_vars

\* ------------------------------------------------------------- ticks only
\* update_dynamics called again and again with dt > 0, as the loop of
\* run_simulation does when no key is pressed
Tick ==
    \E dt \in DtSet \ {0}, draw \in JerkDraws, toggle \in BOOLEAN :
        /\ calls < MaxTicks
        /\ calls' = calls + 1
        /\ call' = Call("update_dynamics", << dt, draw, toggle >>)
        /\ Becomes(update_dynamics(Engine, dt, draw, toggle))
        /\ UNCHANGED timing

\* the step every tick makes: one more call counted
Advance == calls < MaxTicks /\ calls' = calls + 1

\* the loop never stops: a tick that can be made is made
TickSpec == Init /\ [][Tick]_vars /\ WF_calls(Advance)

\* ------------------------------------------------------ shift notification
\* the operations that write gear_shift_message and
\* gear_shift_message_timer, called in any order: the tick with dt >= 0 and
\* the two manual shift commands
Notified(op, arg) ==
    /\ calls < MaxTicks
    /\ calls' = calls + 1
    /\ call' = Call(op, arg)

NotifyUpdate ==
    \E dt \in DtSet, draw \in JerkDraws, toggle \in BOOLEAN :
        /\ Notified("update_dynamics", << dt, draw, toggle >>)
        /\ Becomes(update_dynamics(Engine, dt, draw, toggle))
        /\ UNCHANGED timing

NotifyUpshift ==
    /\ Notified("manual_upshift", << >>)
    /\ Becomes(manual_upshift(Engine))
    /\ UNCHANGED timing

NotifyDownshift ==
    /\ Notified("manual_downshift", << >>)
    /\ Becomes(manual_downshift(Engine))
    /\ UNCHANGED timing

NotifyNext ==
    \/ NotifyUpdate
    \/ NotifyUpshift
    \/ NotifyDownshift

NotificationSpec == Init /\ [][NotifyNext]_vars

\* ------------------------------------------------------------------ claims
\* the call that led to the next state of a step
IsCall(op) == call'.op = op

\* C1: after every update tick, whatever ticks and control commands came
\* before it, idle_rpm <= rpm <= max_rpm.
C1_RpmInRange ==
    call.op = "update_dynamics" => (idle_rpm <= rpm /\ rpm <= max_rpm)

\* a tick in which the integration took rpm to max_rpm, after a command
C1_Witness ==
    /\ calls = MaxCalls
    /\ call.op = "update_dynamics"
    /\ call.arg[1] > 0
    /\ acceleration = 50
    /\ rpm = max_rpm

\* C2: after every update tick, with any subset of the upgrades applied
\* (ceramic_coating included) and any water-injection toggles,
\* 85 <= engine temperature <= 110.
C2_TemperatureInRange ==
    call.op = "update_dynamics" =>
        (850 <= engine_temperature /\ engine_temperature <= 1100)

\* C3: after every tick and after every performance recomputation,
\* 0.7 <= volumetric_efficiency <= 1.0, whatever upgrades are active.
C3_VolumetricEfficiencyInRange ==
    7000 <= volumetric_efficiency /\ volumetric_efficiency <= 10000

\* a tick with both upgrades that multiply the volumetric efficiency active
C3_Witness ==
    /\ calls > 0
    /\ call.op = "update_dynamics"
    /\ upgrades["turbocharger"]
    /\ upgrades["variable_valve_timing"]
    /\ volumetric_efficiency = 10000

\* C4: the gear index is always in 1..N (N = 5) and a step changes it by at
\* most one; a shift_up at gear N and a shift_down at gear 1 (the calls made
\* by manual_upshift and manual_downshift in Manual mode) leave it unchanged
\* and every other shift_up / shift_down moves it by exactly +1 / -1.
C4_GearSteps ==
    [][ /\ current_gear \in 1..5
        /\ current_gear' \in 1..5
        /\ current_gear' - current_gear \in {-1, 0, 1}
        /\ (IsCall("manual_upshift") /\ transmission_mode = "Manual") =>
               current_gear' = IF current_gear = 5 THEN 5 ELSE current_gear + 1
        /\ (IsCall("manual_downshift") /\ transmission_mode = "Manual") =>
               current_gear' = IF current_gear = 1 THEN 1 ELSE current_gear - 1
      ]_vars

\* a shift_down made at gear 1
C4_Witness ==
    /\ calls > 0
    /\ call.op = "manual_downshift"
    /\ transmission_mode = "Manual"
    /\ current_gear = 1
    /\ gear_shift_message = "Already in lowest gear"

\* C5: apply_upgrade with an identifier that is not a known upgrade leaves
\* every field of the simulation unchanged (flags, upgrade set, metrics,
\* temperature, rpm, gear).
C5_UnknownUpgradeNoChange ==
    [][ (IsCall("apply_upgrade") /\ call'.arg[1] \notin KnownUpgrades) =>
            UNCHANGED fields ]_vars

\* an unknown identifier applied to a simulation with ceramic_coating active
\* (a recomputation would lower the temperature)
C5_Witness ==
    /\ calls > 0
    /\ call.op = "apply_upgrade"
    /\ call.arg[1] = "nitrous_oxide"
    /\ upgrades["ceramic_coating"]
    /\ DOMAIN upgrades = KnownUpgrades

\* the metrics named in the effect of each upgrade, with the factor in 1/100
UpgradeFactors(id) ==
    CASE id = "direct_injection" ->
           [fuel_consumption |-> 90, thermal_efficiency |-> 105]
      [] id = "turbocharger" ->
           [power_output |-> 120, volumetric_efficiency |-> 115]
      [] id = "variable_valve_timing" ->
           [volumetric_efficiency |-> 110, fuel_consumption |-> 95]
      [] id = "exhaust_gas_recirculation" -> [nox_emissions |-> 70]
      [] id = "waste_heat_recovery" -> [thermal_efficiency |-> 105]
      [] id = "smart_cooling" -> [thermal_efficiency |-> 102]
      [] id = "advanced_materials" -> [power_output |-> 105]
      [] id = "enhanced_ecu" -> [fuel_consumption |-> 95, power_output |-> 105]
      [] id = "cylinder_deactivation" -> [fuel_consumption |-> 92]
      [] id = "variable_compression" ->
           [thermal_efficiency |-> 108, fuel_consumption |-> 93]
      [] id = "ceramic_coating" -> [thermal_efficiency |-> 103]

Metrics ==
    { "power_output", "torque", "thermal_efficiency", "volumetric_efficiency",
      "fuel_consumption", "brake_specific_fuel_consumption", "co2_emissions",
      "nox_emissions", "piston_speed", "vehicle_speed" }

\* after = before * factor / 100, up to the truncation of the fixed point
ScaledBy(before, after, factor) ==
    /\ after * 100 <= before * factor
    /\ before * factor < (after + 1) * 100

\* C6: applying one known, inactive upgrade to a simulation whose metrics
\* are up to date changes the metrics named in the upgrade's effect by the
\* upgrade's factor and leaves every other metric as it was.
C6_UpgradeChangesOnlyItsMetrics ==
    [][ ( /\ IsCall("apply_upgrade")
          /\ call'.arg[1] \in KnownUpgrades
          /\ ~upgrades[call'.arg[1]]
          /\ update_performance(Engine) = Engine ) =>
        LET f == UpgradeFactors(call'.arg[1])
            before == Engine
            after == Engine'
        IN \A m \in Metrics :
               IF m \in DOMAIN f
               THEN ScaledBy(before[m], after[m], f[m])
               ELSE after[m] = before[m]
      ]_vars

\* C7: in a tick in Automatic mode, with r the rpm after integration and
\* clamping: r > 4000 and gear < 5 give gear + 1 and rpm = r - 1500
\* re-clamped; else r < 2000 and gear > 1 give gear - 1 and rpm = r + 1500
\* re-clamped; otherwise the gear is unchanged.  When the gear changed, the
\* message names the new gear and the timer is 3 at the end of the tick.
C7_AutomaticShift ==
    [][ (IsCall("update_dynamics") /\ transmission_mode = "Automatic") =>
        LET dt == call'.arg[1]
            limit(x) == IF x < idle_rpm THEN idle_rpm
                        ELSE IF x > max_rpm THEN max_rpm ELSE x
            r == limit(rpm + acceleration' * dt * 10)
        IN IF r > 4000 /\ current_gear < 5
           THEN /\ current_gear' = current_gear + 1
                /\ rpm' = limit(r - 1500)
                /\ gear_shift_message' =
                       "Shifted to gear " \o GearStr[current_gear + 1]
                /\ gear_shift_message_timer' = 3
           ELSE IF r < 2000 /\ current_gear > 1
                THEN /\ current_gear' = current_gear - 1
                     /\ rpm' = limit(r + 1500)
                     /\ gear_shift_message' =
                            "Shifted to gear " \o GearStr[current_gear - 1]
                     /\ gear_shift_message_timer' = 3
                ELSE /\ current_gear' = current_gear
                     /\ rpm' = r
      ]_vars

\* a tick that took rpm from 4000 to 4500 in gear 1 and shifted to gear 2
C7_Witness ==
    /\ calls > 0
    /\ call.op = "update_dynamics"
    /\ transmission_mode = "Automatic"
    /\ current_gear = 2
    /\ rpm = 3000
    /\ gear_shift_message = "Shifted to gear 2"
    /\ gear_shift_message_timer = 3

\* C8: in Manual mode, manual_upshift at gear 5 leaves gear and rpm and
\* reports "Already in highest gear" with timer 3, manual_downshift at
\* gear 1 leaves gear and rpm and reports "Already in lowest gear" with
\* timer 3; any other manual shift moves the gear by one, changes rpm by
\* -1500 / +1500 (clamped) and names the new gear, with timer 3.
C8_ManualShift ==
    [][ (transmission_mode = "Manual" /\ (IsCall("manual_upshift") \/ IsCall("manual_downshift"))) =>
        LET limit(x) == IF x < idle_rpm THEN idle_rpm
                        ELSE IF x > max_rpm THEN max_rpm ELSE x
        IN /\ gear_shift_message_timer' = 3
           /\ IsCall("manual_upshift") =>
                IF current_gear = 5
                THEN /\ current_gear' = 5
                     /\ rpm' = rpm
                     /\ gear_shift_message' = "Already in highest gear"
                ELSE /\ current_gear' = current_gear + 1
                     /\ rpm' = limit(rpm - 1500)
                     /\ gear_shift_message' =
                            "Manually shifted up to gear " \o GearStr[current_gear']
           /\ IsCall("manual_downshift") =>
                IF current_gear = 1
                THEN /\ current_gear' = 1
                     /\ rpm' = rpm
                     /\ gear_shift_message' = "Already in lowest gear"
                ELSE /\ current_gear' = current_gear - 1
                     /\ rpm' = limit(rpm + 1500)
                     /\ gear_shift_message' =
                            "Manually shifted down to gear " \o GearStr[current_gear']
      ]_vars

\* a manual_upshift made in the top gear
C8_Witness ==
    /\ calls > 0
    /\ call.op = "manual_upshift"
    /\ transmission_mode = "Manual"
    /\ current_gear = 5
    /\ gear_shift_message = "Already in highest gear"
    /\ gear_shift_message_timer = 3

\* C9: in Automatic mode manual_upshift and manual_downshift change nothing:
\* gear, rpm, message, timer and every other field stay as they were.
C9_ManualShiftRejectedInAutomatic ==
    [][ ( /\ transmission_mode = "Automatic"
          /\ (IsCall("manual_upshift") \/ IsCall("manual_downshift")) ) =>
            UNCHANGED fields ]_vars

\* a manual_downshift made in Automatic mode in gear 3
C9_Witness ==
    /\ calls > 0
    /\ call.op = "manual_downshift"
    /\ transmission_mode = "Automatic"
    /\ current_gear = 3

\* C10: while the mode is Manual, only manual_upshift and manual_downshift
\* change the gear index: no tick, no accelerate or decelerate and no
\* toggle_transmission_mode does.
C10_ManualGearOnlyByShiftCommands ==
    [][ ( /\ transmission_mode = "Manual"
          /\ ~IsCall("manual_upshift")
          /\ ~IsCall("manual_downshift") ) =>
            current_gear' = current_gear ]_vars

\* the last call ended with the metrics recomputed from the object's inputs
Recomputed ==
    \/ call.op \in { "SixStrokeEngine", "update_dynamics", "toggle_water_injection" }
    \/ call.op = "apply_upgrade" /\ call.arg[1] \in KnownUpgrades

\* after = before * factor / 100, within two units of the fixed point
ScaledNear(before, after, factor) ==
    Abs(after * 100 - before * factor) <= 200

\* C11: toggling water injection on a simulation whose metrics are up to
\* date leaves rpm, temperature and gear as they were, makes
\* thermal_efficiency 1.1 times and nox_emissions 0.8 times the value with
\* water injection inactive, and changes no other derived metric.
C11_WaterInjectionFactors ==
    [][ ( /\ IsCall("toggle_water_injection")
          /\ call'.arg[1] # water_injection_active
          /\ Recomputed ) =>
        LET inactive == IF water_injection_active THEN Engine' ELSE Engine
            active == IF water_injection_active THEN Engine ELSE Engine'
        IN /\ rpm' = rpm
           /\ engine_temperature' = engine_temperature
           /\ current_gear' = current_gear
           /\ ScaledNear(inactive.thermal_efficiency,
                         active.thermal_efficiency, 110)
           /\ ScaledNear(inactive.nox_emissions, active.nox_emissions, 80)
           /\ \A m \in Metrics \ { "thermal_efficiency", "nox_emissions" } :
                  active[m] = inactive[m]
      ]_vars

\* C12: a performance recomputation made right after another one, with the
\* same rpm, temperature, upgrade set and water-injection flag (a
\* toggle_water_injection that keeps the flag, after a call that
\* recomputed), changes none of these inputs and none of the metrics.
C12_RecomputationIsPure ==
    [][ ( /\ IsCall("toggle_water_injection")
          /\ call'.arg[1] = water_injection_active
          /\ Recomputed ) =>
            UNCHANGED fields ]_vars

\* C13: a tick that leaves the gear as it was decreases a positive timer
\* by dt and clears the message as soon as the timer is <= 0, and leaves
\* an empty message empty; so in Manual mode, where ticks never change the
\* gear, a message shown when enough ticks with dt > 0 remain to use up
\* its timer is eventually cleared.
C13_MessageExpires ==
    /\ [][ (IsCall("update_dynamics") /\ current_gear' = current_gear) =>
            LET dt == call'.arg[1]
            IN /\ gear_shift_message_timer > 0 =>
                    /\ gear_shift_message_timer' = gear_shift_message_timer - dt
                    /\ gear_shift_message' =
                           IF gear_shift_message_timer - dt <= 0
                           THEN "" ELSE gear_shift_message
               /\ gear_shift_message = "" => gear_shift_message' = ""
          ]_vars
    /\ ( /\ gear_shift_message # ""
         /\ transmission_mode = "Manual"
         /\ calls + gear_shift_message_timer <= MaxTicks )
            ~> (gear_shift_message = "")

\* three ticks after a manual shift: the message of the shift is cleared
C13_Witness ==
    /\ call.op = "update_dynamics"
    /\ calls = 3
    /\ transmission_mode = "Manual"
    /\ current_gear > 1
    /\ gear_shift_message = ""
    /\ gear_shift_message_timer = 0

\* C14: after every iteration of the loop of run_simulation, whatever key
\* was read (the keys that add 10 to or take 10 from acceleration before
\* the tick included), whatever dt and whatever random draw,
\* -500 <= jerk <= 500 and -50 <= acceleration <= 50.
C14_JerkAndAccelerationInRange ==
    (call.op = "run_simulation" /\ call.arg # << >>) =>
        /\ -500 <= jerk /\ jerk <= 500
        /\ -50 <= acceleration /\ acceleration <= 50

\* an iteration that read the key 'a' with jerk and acceleration at their
\* limits, and left them there
C14_Witness ==
    /\ call.op = "run_simulation"
    /\ calls > 0
    /\ call.arg[1] = "a"
    /\ call.arg[2] > 0
    /\ call.arg[3] = 100
    /\ jerk = 500
    /\ acceleration = 50
    /\ Len(frame_log) > 6

\* C15: the upgrade set always holds exactly the 11 known identifiers, all
\* inactive on a fresh simulation, and no call (apply_upgrade with any
\* identifier, tick, water-injection toggle, shift, mode toggle) adds or
\* removes an identifier or makes an active flag inactive.
C15_UpgradesOnlyActivate ==
    /\ Cardinality(KnownUpgrades) = 11
    /\ [](DOMAIN upgrades = KnownUpgrades)
    /\ [](call.op = "SixStrokeEngine" => \A id \in KnownUpgrades : ~upgrades[id])
    /\ [][ \A id \in KnownUpgrades : upgrades[id] => upgrades'[id] ]_vars

\* a tick that toggled water injection, made with upgrades active: the
\* flags set before the tick are still set
C15_Witness ==
    /\ calls > 0
    /\ call.op = "update_dynamics"
    /\ call.arg[3]
    /\ upgrades["turbocharger"]
    /\ upgrades["ceramic_coating"]

\* C16: the mode is Automatic on a fresh simulation; toggle_transmission_mode
\* turns Automatic into Manual and Manual into Automatic, so that two
\* toggles in a row restore the mode, and it changes nothing else: gear,
\* rpm, temperature, message, timer and all metrics stay as they were.
C16_ToggleModeOnly ==
    /\ [](call.op = "SixStrokeEngine" => transmission_mode = "Automatic")
    /\ [](toggle_transmission_mode(toggle_transmission_mode(Engine)) = Engine)
    /\ [][ IsCall("toggle_transmission_mode") =>
             /\ transmission_mode' =
                    IF transmission_mode = "Automatic"
                    THEN "Manual" ELSE "Automatic"
             /\ Engine' = [Engine EXCEPT !.transmission_mode = transmission_mode']
             /\ UNCHANGED timing
          ]_vars

\* a toggle back to Automatic made in gear 3 while the message of a manual
\* shift is shown
C16_Witness ==
    /\ calls > 0
    /\ call.op = "toggle_transmission_mode"
    /\ transmission_mode = "Automatic"
    /\ current_gear = 3
    /\ gear_shift_message = "Manually shifted up to gear 3"
    /\ gear_shift_message_timer = 3

\* the last n elements of the sequence q
LastN(q, n) == SubSeq(q, Len(q) - n + 1, Len(q))

\* C17: after any number of calculate_fps calls the queue holds at most 60
\* frame durations, the most recent min(k, 60) of the k measured, in the
\* order they were measured, and the value reported is
\* count / (sum of the durations held / 1000).
C17_FrameWindow ==
    /\ Len(frame_times) <= 60
    /\ frame_times = LastN(frame_log, Min2(Len(frame_log), 60))
    /\ call.op = "calculate_fps" =>
           current_fps =
               IF Sum(frame_times) = 0 THEN Infinity
               ELSE (Len(frame_times) * 1000000) \div Sum(frame_times)

\* the 62nd measurement: the queue is full and the two oldest durations,
\* a second each, are gone
C17_Witness ==
    /\ call.op = "calculate_fps"
    /\ Len(frame_log) = 62
    /\ frame_log[2] = 1000
    /\ Len(frame_times) = 60
    /\ frame_times[1] = frame_log[3]
    /\ frame_times[60] = frame_log[62]

\* C18: the first calculate_fps call, made when no frame was measured yet,
\* records an interval of length zero and returns a finite value (no
\* division by a total of zero, no interval measured from a timestamp
\* that was never set).
C18_FirstCallTolerated ==
    [][ (IsCall("calculate_fps") /\ frame_log = << >>) =>
            /\ frame_times' = << 0 >>
            /\ current_fps' # Infinity
      ]_vars

\* C19: two known upgrades applied to a fresh simulation leave the same
\* flags, temperature and metrics whichever is applied first: the second
\* apply_upgrade ends in the state the two calls made in the other order
\* end in.
C19_UpgradeOrderIndependent ==
    [][ ( /\ call.op = "apply_upgrade"
          /\ IsCall("apply_upgrade")
          /\ call.arg[1] \in KnownUpgrades
          /\ call'.arg[1] \in KnownUpgrades
          /\ Engine = apply_upgrade(Constructed, call.arg[1]) ) =>
            Engine' = apply_upgrade(
                          apply_upgrade(Constructed, call'.arg[1]), call.arg[1])
      ]_vars

\* C20: right after an automatic shift in a tick the rpm does not satisfy
\* the condition of the opposite shift: after an automatic upshift
\* 2500 < rpm <= 4500, so rpm >= 2000, and after an automatic downshift
\* 2300 <= rpm < 3500, so rpm <= 4000.
C20_NoOppositeShift ==
    [][ (IsCall("update_dynamics") /\ transmission_mode = "Automatic") =>
            /\ current_gear' > current_gear =>
                   /\ 2500 < rpm' /\ rpm' <= 4500
                   /\ ~(rpm' < 2000)
            /\ current_gear' < current_gear =>
                   /\ 2300 <= rpm' /\ rpm' < 3500
                   /\ ~(rpm' > 4000)
      ]_vars

\* an automatic downshift to gear 2 made at idle_rpm
C20_Witness ==
    /\ calls > 0
    /\ call.op = "update_dynamics"
    /\ transmission_mode = "Automatic"
    /\ gear_shift_message = "Shifted to gear 2"
    /\ gear_shift_message_timer = 3
    /\ rpm = idle_rpm + 1500

\* C21: after an update tick, a manual_upshift or a manual_downshift a
\* non-empty gear shift message comes with a timer > 0; the timer is never
\* more than 3 seconds; on a freshly constructed object the message is
\* empty and the timer is 0.
C21_NotificationBounded ==
    /\ gear_shift_message_timer <= 3
    /\ call.op \in { "update_dynamics", "manual_upshift", "manual_downshift" } =>
           (gear_shift_message # "" => gear_shift_message_timer > 0)
    /\ call.op = "SixStrokeEngine" =>
           /\ gear_shift_message = ""
           /\ gear_shift_message_timer = 0

\* two ticks of one second after a manual downshift to gear 2: the message
\* of the shift is still shown with one second left
C21_Witness ==
    /\ call.op = "update_dynamics"
    /\ calls = 3
    /\ gear_shift_message = "Manually shifted down to gear 2"
    /\ gear_shift_message_timer = 1

====
